---- MODULE Spec2Model ----
(***************************************************************************)
(* Model of cache-locality (src/main.rs): the `test` subcommand (run_test: *)
(* buffer fill, the doubling loop over step sizes, the random walk of one  *)
(* trial, the optional CSV record per trial) and the `plot` subcommand     *)
(* (plot_data, up to the axis bounds and the creation of the image).       *)
(*                                                                         *)
(* usize is modelled as an unsigned word of WordBits bits; all arithmetic  *)
(* on it wraps modulo 2^WordBits exactly where the Rust code wraps.        *)
(***************************************************************************)
EXTENDS Integers, Sequences, FiniteSets, TLC

\* ------------------------------------------------------------- bounds
WordBits == 3          \* width of usize in the model
MaxTotal == 5          \* largest --total-size tried
MaxInitialStep == 3    \* largest --initial-step-size tried
MaxIterations == 2     \* largest --iterations tried
MaxTrials == 6         \* trials after which the model stops following a run
MaxRecords == 2        \* longest data file given to plot

\* ------------------------------------------------------------- words
WordMod == 2 ^ WordBits
WordMax == WordMod - 1
HalfWord == 2 ^ (WordBits - 1)

U8Mod == 256

\* Option<T>: None or Some(x)
None == << >>
Some(x) == << x >>

\* usize::wrapping_add / wrapping_sub, u8::wrapping_add
wrapping_add(a, b) == (a + b) % WordMod
wrapping_sub(a, b) == (a + WordMod - b) % WordMod
wrapping_add_u8(a, b) == (a + b) % U8Mod

\* step_size <<= 1 : the top bit is shifted out
shl1(x) == (x * 2) % WordMod

\* args.max_step_size.unwrap_or(args.total_size)
unwrap_or(opt, default) == IF opt = None THEN default ELSE opt[1]

\* while step_size <= max_step_size
while_cond(step, max) == step <= max

\* .take(args.iterations): another item is yielded while fewer were taken
take_one_more(taken, n) == taken <= n
take_more(taken, n) == taken < n

\* position %= args.total_size
reduce_none(p, total) == p
reduce(p, total) == p % total

\* ------------------------------------------------------------- inputs
\* Buffer contents: rand::random() per index; a few sample fills.
FillSeeds == {1, 255}
MemSamples(total) == { [i \in 1 .. total |-> (s * i) % U8Mod] : s \in FillSeeds }

TotalSizes == 0 .. MaxTotal
InitialSteps == 0 .. MaxInitialStep
MaxStepOptions == {None} \cup { Some(m) : m \in {0, 2, HalfWord - 1, HalfWord, WordMax} }
\* Values of `rng.gen::<usize>()`: a few words, small and large
RandomWords == {0, 1, 2, HalfWord, WordMax}
IterationCounts == 0 .. MaxIterations

\* Records of a data file given to plot: step_size and steps_per_second
PlotRecord == [step_size : 1 .. 2, steps_per_second : 1 .. 2]
RECURSIVE SeqsUpTo(_, _)
SeqsUpTo(S, n) ==
    IF n = 0 THEN { <<>> }
    ELSE LET shorter == SeqsUpTo(S, n - 1)
         IN shorter \cup { Append(q, x) : q \in { r \in shorter : Len(r) = n - 1 }, x \in S }
DataFiles == SeqsUpTo(PlotRecord, MaxRecords)

VARIABLES
    command,            \* Args.subcommand: "test" or "plot"
    pc,                 \* position in main / run_test / plot_data
    result,             \* what main returns: "running", "Ok", "Err(io)", "Err(No data)", "panicked"
    console,            \* kind of the last line printed
    total_size, initial_step_size, max_step_size_arg, iterations, out,   \* TestArgs
    mem,                \* the buffer
    max_step_size, step_size,
    sum, position, steps,   \* locals of one trial; steps = items taken from the Observer
    draws,              \* values drawn from rng in the current trial
    updates, reads,     \* position updates and buffer reads of the current trial
    bytes_total,        \* unwrapped total of the bytes read in the current trial
    shadow,             \* the walk of the same trial, same draws, under the opposite
                        \* refresh signal in every iteration
    trials,             \* step sizes of the trials entered so far
    completed,          \* step sizes of the trials completed so far
    records,            \* step_size of the Records serialized so far
    data,               \* plot: the Records of the data file, None when it cannot be read
    image_created       \* plot: the bitmap backend was created

vars == << command, pc, result, console, total_size, initial_step_size,
           max_step_size_arg, iterations, out, mem, max_step_size, step_size,
           sum, position, steps, draws, updates, reads, bytes_total, shadow,
           trials, completed, records, data, image_created >>

argVars == << command, total_size, initial_step_size, max_step_size_arg, iterations, out >>
trialVars == << sum, position, steps, draws, updates, reads, bytes_total, shadow >>
plotVars == << data, image_created >>

\* ------------------------------------------------------------- one iteration
\* The walk state of a trial.
Walk(p, s, n, d, u, r, b) ==
    [position |-> p, sum |-> s, steps |-> n, draws |-> d, updates |-> u,
     reads |-> r, bytes_total |-> b, refreshed |-> FALSE, panicked |-> FALSE]

\* `let mut sum: u8 = 0; let mut position: usize = 0;` at the top of the while body
initial_sum == 0
carried_position == position
initial_position == 0

\* Lines 99-107 on walk state w with the two values drawn from rng (rnd, dir).
walk_step(w, rnd, dir) ==
    IF step_size = 0
    THEN \* rnd % 0: attempt to calculate the remainder with a divisor of zero
         [w EXCEPT !.draws = @ + 1, !.panicked = TRUE]
    ELSE LET step == rnd % step_size
             moved == IF dir THEN wrapping_add(w.position, step)
                             ELSE wrapping_sub(w.position, step)
         IN IF total_size = 0
            THEN \* position %= 0
                 [w EXCEPT !.draws = @ + 2, !.position = moved, !.panicked = TRUE]
            ELSE LET p == reduce(moved, total_size)
                 IN IF p >= Len(mem)
                    THEN \* mem[position]: index out of bounds
                         [w EXCEPT !.draws = @ + 2, !.position = p,
                                   !.updates = @ + 1, !.panicked = TRUE]
                    ELSE [w EXCEPT !.draws = @ + 2, !.position = p,
                                   !.updates = @ + 1,
                                   !.reads = @ + 1,
                                   !.sum = wrapping_add_u8(@, mem[p + 1]),
                                   !.bytes_total = @ + mem[p + 1],
                                   !.steps = @ + 1]

\* Body of the for loop, lines 99-114: the walk step, then the refresh of the
\* displayed rate when the Observer's item should_print is true.
loop_body_refresh_skips_sum(w, rnd, dir, should_print) ==
    LET v == walk_step(w, rnd, dir)
    IN IF v.panicked THEN v
       ELSE IF should_print THEN [v EXCEPT !.sum = w.sum, !.refreshed = TRUE]
       ELSE v
loop_body(w, rnd, dir, should_print) ==
    LET v == walk_step(w, rnd, dir)
    IN IF v.panicked THEN v ELSE [v EXCEPT !.refreshed = should_print]

\* ------------------------------------------------------------- Init
Init ==
    /\ command \in {"test", "plot"}
    /\ pc = "main"
    /\ result = "running"
    /\ console = "none"
    /\ IF command = "test"
       THEN /\ total_size \in TotalSizes
            /\ initial_step_size \in InitialSteps
            /\ max_step_size_arg \in MaxStepOptions
            /\ iterations \in IterationCounts
            /\ out \in {None, Some("out.csv")}
            /\ data = None
       ELSE /\ total_size = 0
            /\ initial_step_size = 0
            /\ max_step_size_arg = None
            /\ iterations = 0
            /\ out = None
            /\ data \in {None} \cup { Some(d) : d \in DataFiles }
    /\ mem = <<>>
    /\ max_step_size = 0
    /\ step_size = 0
    /\ sum = 0 /\ position = 0 /\ steps = 0
    /\ draws = 0 /\ updates = 0 /\ reads = 0 /\ bytes_total = 0
    /\ shadow = [position |-> 0, sum |-> 0, steps |-> 0, draws |-> 0]
    /\ trials = <<>>
    /\ completed = <<>>
    /\ records = <<>>
    /\ image_created = FALSE

\* ------------------------------------------------------------- run_test
\* Lines 69-83: fill the buffer, open the CSV writer, set up the loop.
Allocate ==
    /\ pc = "main" /\ command = "test"
    /\ mem' \in MemSamples(total_size)
    /\ \/ /\ console' = "allocating"
          /\ max_step_size' = unwrap_or(max_step_size_arg, total_size)
          /\ step_size' = initial_step_size
          /\ pc' = "while"
          /\ UNCHANGED result
       \/ \* csv::Writer::from_path(out) fails
          /\ out # None
          /\ console' = "allocating"
          /\ pc' = "returned"
          /\ result' = "Err(io)"
          /\ UNCHANGED << max_step_size, step_size >>
    /\ UNCHANGED << argVars, trialVars, trials, completed, records, plotVars >>

\* Lines 84-88: the loop condition holds; a trial begins.
TrialStart ==
    /\ pc = "while"
    /\ while_cond(step_size, max_step_size)
    /\ Len(trials) < MaxTrials      \* the model follows a run for MaxTrials trials
    /\ console' = "testing"
    /\ sum' = initial_sum /\ position' = initial_position
    /\ steps' = 0
    /\ draws' = 0 /\ updates' = 0 /\ reads' = 0 /\ bytes_total' = 0
    /\ shadow' = [position |-> initial_position, sum |-> initial_sum, steps |-> 0,
                  draws |-> 0]
    /\ trials' = Append(trials, step_size)
    /\ pc' = "for"
    /\ UNCHANGED << argVars, result, mem, max_step_size, step_size, completed,
                    records, plotVars >>

\* Lines 89-115: one iteration of the for loop.
Iterate ==
    /\ pc = "for"
    /\ take_more(steps, iterations)
    /\ \E rnd \in RandomWords, dir \in BOOLEAN, should_print \in BOOLEAN :
         LET w == loop_body(Walk(position, sum, steps, draws, updates, reads, bytes_total),
                            rnd, dir, should_print)
             w2 == loop_body(Walk(shadow.position, shadow.sum, shadow.steps, shadow.draws,
                                  0, 0, 0),
                             rnd, dir, ~ should_print)
         IN /\ position' = w.position
            /\ sum' = w.sum
            /\ steps' = w.steps
            /\ draws' = w.draws
            /\ updates' = w.updates
            /\ reads' = w.reads
            /\ bytes_total' = w.bytes_total
            /\ console' = IF w.refreshed THEN "progress" ELSE console
            /\ shadow' = [position |-> w2.position, sum |-> w2.sum, steps |-> w2.steps,
                          draws |-> w2.draws]
            /\ IF w.panicked
               THEN pc' = "returned" /\ result' = "panicked"
               ELSE pc' = "for" /\ UNCHANGED result
    /\ UNCHANGED << argVars, mem, max_step_size, step_size, trials, completed,
                    records, plotVars >>

\* Lines 116-136: the Observer's items are used up; report, record, double.
TrialEnd ==
    /\ pc = "for"
    /\ ~ take_more(steps, iterations)
    /\ console' = "completed"
    /\ \/ /\ records' = IF out # None THEN Append(records, step_size) ELSE records
          /\ completed' = Append(completed, step_size)
          /\ step_size' = shl1(step_size)
          /\ pc' = "while"
          /\ UNCHANGED result
       \/ \* out.serialize(..)? fails
          /\ out # None
          /\ pc' = "returned"
          /\ result' = "Err(io)"
          /\ UNCHANGED << records, completed, step_size >>
    /\ UNCHANGED << argVars, mem, max_step_size, trialVars, trials, plotVars >>

\* Lines 138-143: the loop condition fails.
Finish ==
    /\ pc = "while"
    /\ ~ while_cond(step_size, max_step_size)
    /\ console' = IF out # None THEN "saved" ELSE "finished"
    /\ pc' = "returned"
    /\ result' = "Ok"
    /\ UNCHANGED << argVars, mem, max_step_size, step_size, trialVars, trials,
                    completed, records, plotVars >>

\* ------------------------------------------------------------- plot_data
\* Iterator::min / max over the records: None when there is none.
RECURSIVE fold_min(_, _), fold_max(_, _)
fold_min(q, acc) ==
    IF q = <<>> THEN acc
    ELSE fold_min(Tail(q), IF acc = None \/ Head(q) < acc[1] THEN Some(Head(q)) ELSE acc)
fold_max(q, acc) ==
    IF q = <<>> THEN acc
    ELSE fold_max(Tail(q), IF acc = None \/ Head(q) >= acc[1] THEN Some(Head(q)) ELSE acc)

step_sizes(d) == [i \in 1 .. Len(d) |-> d[i].step_size]
rates(d) == [i \in 1 .. Len(d) |-> d[i].steps_per_second]

min_x(d) == fold_min(step_sizes(d), None)
max_x(d) == fold_max(step_sizes(d), None)
max_y(d) == fold_max(rates(d), None)

\* Lines 155-169: the axis bounds, each `.ok_or("No data")?`
axis_bounds_unwrap(d) ==
    IF min_x(d) = None \/ max_x(d) = None \/ max_y(d) = None
    THEN [err |-> "panicked"]
    ELSE [err |-> "", min_x |-> min_x(d)[1], max_x |-> max_x(d)[1], max_y |-> max_y(d)[1]]
axis_bounds(d) ==
    IF min_x(d) = None THEN [err |-> "Err(No data)"]
    ELSE IF max_x(d) = None THEN [err |-> "Err(No data)"]
    ELSE IF max_y(d) = None THEN [err |-> "Err(No data)"]
    ELSE [err |-> "", min_x |-> min_x(d)[1], max_x |-> max_x(d)[1], max_y |-> max_y(d)[1]]

\* Lines 147-169: read the data file and compute the axis bounds.
PlotLoad ==
    /\ pc = "main" /\ command = "plot"
    /\ IF data = None
       THEN \* Reader::from_path(..)? or a row's deserialization fails
            /\ pc' = "returned"
            /\ result' = "Err(io)"
       ELSE LET b == axis_bounds(data[1])
            IN IF b.err # ""
               THEN pc' = "returned" /\ result' = b.err
               ELSE pc' = "render" /\ UNCHANGED result
    /\ UNCHANGED << argVars, console, mem, max_step_size, step_size, trialVars,
                    trials, completed, records, plotVars >>

\* Lines 171-191: create the bitmap, draw, present.
PlotRender ==
    /\ pc = "render"
    /\ image_created' = TRUE
    /\ pc' = "returned"
    /\ \/ result' = "Ok" /\ console' = "saved"
       \/ result' = "Err(io)" /\ UNCHANGED console
    /\ UNCHANGED << argVars, mem, max_step_size, step_size, trialVars, trials,
                    completed, records, data >>

\* ------------------------------------------------------------- specification
Next ==
    \/ Allocate
    \/ TrialStart
    \/ Iterate
    \/ TrialEnd
    \/ Finish
    \/ PlotLoad
    \/ PlotRender

Spec == Init /\ [][Next]_vars

\* ------------------------------------------------------------- properties
\* The maximum step size the run uses, from the arguments.
MaxStep == unwrap_or(max_step_size_arg, total_size)

\* s, 2s, 4s, ... up to and including the largest term <= m, in unbounded integers
RECURSIVE Doubling(_, _)
Doubling(s, m) == IF s > m THEN << >> ELSE << s >> \o Doubling(2 * s, m)

IsPrefix(p, q) == Len(p) <= Len(q) /\ \A i \in 1 .. Len(p) : p[i] = q[i]

StrictlyAscending(q) == \A i \in 1 .. Len(q) - 1 : q[i] < q[i + 1]

\* Distance between positions a and b on the ring of n positions
CircDist(a, b, n) ==
    LET d == (b + n - a) % n
    IN IF d <= n - d THEN d ELSE n - d

\* No trial is in progress and at least one trial was completed: the trial
\* locals hold the values the last completed trial left.
TrialJustCompleted == command = "test" /\ Len(completed) = Len(trials) /\ Len(completed) >= 1

\* C1: for initial_step_size s0 >= 1 the step sizes of the trials run are exactly
\* s0, 2*s0, 4*s0, ... up to and including the largest term <= max_step_size,
\* and none when s0 > max_step_size.
C1_DoublingSequence ==
    (command = "test" /\ initial_step_size >= 1 /\ total_size >= 1 /\ iterations >= 1) =>
        /\ IsPrefix(completed, Doubling(initial_step_size, MaxStep))
        /\ (result = "Ok" => completed = Doubling(initial_step_size, MaxStep))

\* C2: with total_size >= 1, position is always in [0, total_size), so the
\* read mem[position] is inside the buffer.
C2_PositionInBounds ==
    (command = "test" /\ total_size >= 1 /\ pc # "main") =>
        /\ position \in 0 .. total_size - 1
        /\ position < Len(mem)

C2_Witness ==
    /\ pc = "for" /\ steps >= 1
    /\ total_size >= 2 /\ step_size > total_size
    /\ position = total_size - 1

\* C3: a completed trial took exactly `iterations` loop steps: that many
\* position updates, buffer reads and additions into the checksum, and the
\* checksum is the total of the bytes read modulo 256.
C3_ExactlyNSteps ==
    TrialJustCompleted =>
        /\ steps = iterations
        /\ updates = iterations
        /\ reads = iterations
        /\ draws = 2 * iterations
        /\ sum = bytes_total % U8Mod

C3_Witness ==
    /\ TrialJustCompleted
    /\ iterations >= 2
    /\ reads = iterations
    /\ bytes_total >= U8Mod

\* C4: with a sink, the Records are one per completed trial, in trial order,
\* carrying the trial's step size, strictly ascending; without a sink, none.
C4_RecordPerTrial ==
    (command = "test" /\ initial_step_size >= 1 /\ total_size >= 1 /\ iterations >= 1) =>
        IF out # None
        THEN records = completed /\ StrictlyAscending(records)
        ELSE records = << >>

\* C5: when initial_step_size = 0 or initial_step_size > max_step_size, the
\* run has no trial, no Record, and does not abort.
C5_InvalidConfigNoTrials ==
    (command = "test" /\ (initial_step_size = 0 \/ initial_step_size > MaxStep)) =>
        /\ completed = << >>
        /\ records = << >>
        /\ result # "panicked"

\* C6: with 1 <= initial_step_size <= max_step_size and total_size >= 1 the
\* run ends normally, for every max_step_size of the word: it never aborts.
C6_RunFinishes ==
    (command = "test" /\ 1 <= initial_step_size /\ initial_step_size <= MaxStep
        /\ total_size >= 1) =>
        result # "panicked"

\* C7: plot_data on a data file of zero Records returns the error "No data"
\* and creates no image.
C7_NoDataError ==
    (command = "plot" /\ data = Some(<< >>)) =>
        /\ pc # "render"
        /\ image_created = FALSE
        /\ (pc = "returned" => result = "Err(No data)")

C7_Witness == command = "plot" /\ data = Some(<< >>) /\ pc = "returned"

\* C8: every iteration moves the position by a circular distance of at most
\* step_size - 1.
C8_JumpBounded ==
    [][ (pc = "for" /\ pc' = "for" /\ steps' = steps + 1) =>
            CircDist(position, position', total_size) <= step_size - 1 ]_vars

\* C9: the refresh signal does not influence the walk: the run and the same
\* run with the same draws under other refresh signals (the shadow, which is
\* given the opposite signal in every iteration) agree on position, checksum,
\* iterations and random draws after every iteration.
C9_RefreshIndependent ==
    command = "test" =>
        /\ shadow.position = position
        /\ shadow.sum = sum
        /\ shadow.steps = steps
        /\ shadow.draws = draws

C9_Witness ==
    /\ pc = "for" /\ steps >= 2
    /\ console = "progress"
    /\ sum > 0 /\ position > 0

\* C10: every trial starts with position 0 and checksum 0, and the buffer is
\* not written once it is filled.
C10_TrialStartsFresh ==
    [][ /\ (pc = "while" /\ pc' = "for") => (position' = 0 /\ sum' = 0)
        /\ pc # "main" => mem' = mem ]_vars

C10_Witness ==
    /\ pc = "for" /\ steps = 0
    /\ Len(completed) >= 1 /\ completed[Len(completed)] >= 2
    /\ iterations >= 1 /\ total_size >= 2
    /\ position = 0 /\ sum = 0

====
